---------------------------- MODULE Spec2Model ----------------------------
(* PCI device resolution of pkg/pci/pci_linux.go: the modalias decoder,    *)
(* the lookups in the vendor/product/class database, GetDevice and         *)
(* ListDevices.  Strings are sequences of characters; a character is a     *)
(* one-letter string, NUL stands for the zero byte and LF for a newline.   *)
EXTENDS Integers, Sequences, FiniteSets, TLC

VARIABLES
    info,     \* the Info receiver: Vendors, Products, Classes as load() set them
    files,    \* the files under /sys/bus/pci/devices: path -> [readable, data, cap]
    dir,      \* what ioutil.ReadDir answers for /sys/bus/pci/devices
    last,     \* the most recent GetDevice invocation: its locals and its return value
    held,     \* a result a caller has kept from an earlier GetDevice invocation
    pc,       \* ListDevices: "idle", "loop", "done"
    links,    \* ListDevices: the directory entries being ranged over
    idx,      \* ListDevices: position of the range loop in links
    devs,     \* ListDevices: the slice being built, then returned
    visited,  \* ListDevices: the addresses handed to GetDevice in this run
    mark,     \* length of stderr when the current ListDevices run started
    readErr,  \* whether the current ListDevices run failed to read the directory
    runs,     \* number of ListDevices runs started
    stderr,   \* what was written to os.Stderr
    again,    \* GetDevice was invoked again with the address of the kept result
    crashed   \* a run-time panic ended the process

vars == <<info, files, dir, last, held, pc, links, idx, devs, visited, mark,
          readErr, runs, stderr, again, crashed>>

-----------------------------------------------------------------------------
(* Values *)

Nil == [nil |-> TRUE]
Panic == [panic |-> TRUE]
NoCall == [none |-> TRUE]
NUL == "NUL"
LF == "LF"
UNKNOWN == "unknown"
SysBusPciDevices == "/sys/bus/pci/devices/"

UpperChars == <<"A", "B", "C", "D", "E", "F", "G", "H", "I", "J", "K", "L", "M",
                "N", "O", "P", "Q", "R", "S", "T", "U", "V", "W", "X", "Y", "Z">>
LowerChars == <<"a", "b", "c", "d", "e", "f", "g", "h", "i", "j", "k", "l", "m",
                "n", "o", "p", "q", "r", "s", "t", "u", "v", "w", "x", "y", "z">>

ToLowerChar(c) ==
    IF \E k \in 1..Len(UpperChars) : UpperChars[k] = c
    THEN LowerChars[CHOOSE k \in 1..Len(UpperChars) : UpperChars[k] = c]
    ELSE c

\* strings.ToLower
ToLower(s) == [k \in 1..Len(s) |-> ToLowerChar(s[k])]

\* Go's map index expression m[k]: the zero value (a nil pointer) when k is absent
MapGet(m, k) == IF k \in DOMAIN m THEN m[k] ELSE Nil

-----------------------------------------------------------------------------
(* Address parsing and the modalias path *)

RECURSIVE Split(_, _)
Split(s, sep) ==
    IF \A k \in 1..Len(s) : s[k] # sep
    THEN <<s>>
    ELSE LET i == CHOOSE k \in 1..Len(s) : s[k] = sep /\ \A j \in 1..(k - 1) : s[j] # sep
         IN  <<SubSeq(s, 1, i - 1)>> \o Split(SubSeq(s, i + 1, Len(s)), sep)

ZeroDomain == <<"0", "0", "0", "0">>

\* domain:bus:slot.function, or bus:slot.function with the zero domain
AddressFromString(address) ==
    LET parts == Split(address, ":")
        full  == Len(parts) = 3
        tail  == IF Len(parts) \in {2, 3} THEN Split(parts[Len(parts)], ".") ELSE <<>>
    IN  IF Len(parts) \in {2, 3} /\ Len(tail) = 2
        THEN [Domain   |-> IF full THEN parts[1] ELSE ZeroDomain,
              Bus      |-> parts[Len(parts) - 1],
              Slot     |-> tail[1],
              Function |-> tail[2]]
        ELSE Nil

getDeviceModaliasPath(address) ==
    LET pciAddr == AddressFromString(address)
    IN  IF pciAddr = Nil
        THEN <<>>
        ELSE <<SysBusPciDevices>>
             \o pciAddr.Domain \o <<":">> \o pciAddr.Bus \o <<":">>
             \o pciAddr.Slot \o <<".">> \o pciAddr.Function
             \o <<"/modalias">>

-----------------------------------------------------------------------------
(* The identifier decoder *)

\* ioutil.ReadFile: the bytes of the file in a slice whose capacity the
\* runtime chooses; the part of the backing array past the length is zero.
ReadFile(fs, fp) ==
    IF fs[fp].readable
    THEN [err |-> FALSE, data |-> fs[fp].data, cap |-> fs[fp].cap]
    ELSE [err |-> TRUE, data |-> <<>>, cap |-> 0]

\* Go's slice expression data[lo:hi] on a byte slice is bounded by its
\* capacity, not its length: it panics when hi > cap, and else yields the
\* backing array's bytes lo..hi-1.
SliceInRange(rd, lo, hi) == lo <= hi /\ hi <= rd.cap

Slice(rd, lo, hi) ==
    [k \in 1..(hi - lo) |-> IF lo + k <= Len(rd.data) THEN rd.data[lo + k] ELSE NUL]

ModaliasOffsets ==
    [vendorID    |-> <<9, 13>>,  productID    |-> <<18, 22>>,
     subvendorID |-> <<28, 32>>, subproductID |-> <<38, 42>>,
     classID     |-> <<44, 46>>, subclassID   |-> <<48, 50>>,
     progIfaceID |-> <<51, 53>>]

ModaliasFields == DOMAIN ModaliasOffsets

parseModaliasFileLowerAll(fs, fp) ==
    IF fp \notin DOMAIN fs
    THEN Nil
    ELSE LET rd == ReadFile(fs, fp)
             at(f) == Slice(rd, ModaliasOffsets[f][1], ModaliasOffsets[f][2])
         IN  IF rd.err
             THEN Nil
             ELSE IF \E f \in ModaliasFields :
                        ~SliceInRange(rd, ModaliasOffsets[f][1], ModaliasOffsets[f][2])
                  THEN Panic
                  ELSE [f \in ModaliasFields |-> ToLower(at(f))]

parseModaliasFile(fs, fp) ==
    IF fp \notin DOMAIN fs
    THEN Nil                                    \* os.Stat fails
    ELSE LET rd == ReadFile(fs, fp)
             at(f) == Slice(rd, ModaliasOffsets[f][1], ModaliasOffsets[f][2])
         IN  IF rd.err
             THEN Nil
             ELSE IF \E f \in ModaliasFields :
                        ~SliceInRange(rd, ModaliasOffsets[f][1], ModaliasOffsets[f][2])
                  THEN Panic
                  ELSE [vendorID     |-> ToLower(at("vendorID")),
                        productID    |-> ToLower(at("productID")),
                        subproductID |-> ToLower(at("subproductID")),
                        subvendorID  |-> ToLower(at("subvendorID")),
                        classID      |-> at("classID"),
                        subclassID   |-> at("subclassID"),
                        progIfaceID  |-> at("progIfaceID")]

-----------------------------------------------------------------------------
(* The hierarchical resolver *)

\* the first element of list whose ID is id, or Nil: the range loops that
\* return at the first match
RECURSIVE FirstByID(_, _)
FirstByID(list, id) ==
    IF list = <<>>
    THEN Nil
    ELSE IF Head(list).ID = id THEN Head(list) ELSE FirstByID(Tail(list), id)

findPCIVendorNoFallback(inf, vendorID) == MapGet(inf.Vendors, vendorID)

findPCIVendor(inf, vendorID) ==
    LET vendor == MapGet(inf.Vendors, vendorID)
    IN  IF vendor = Nil
        THEN [ID |-> vendorID, Name |-> UNKNOWN, Products |-> <<>>]
        ELSE vendor

findPCIProduct(inf, vendorID, productID) ==
    LET product == MapGet(inf.Products, vendorID \o productID)
    IN  IF product = Nil
        THEN [VendorID |-> <<>>, ID |-> productID, Name |-> UNKNOWN,
              Subsystems |-> <<>>]
        ELSE product

findPCISubsystemProductOnly(inf, vendorID, productID, subvendorID, subproductID) ==
    LET product == MapGet(inf.Products, vendorID \o productID)
        hit     == IF product # Nil THEN FirstByID(product.Subsystems, subproductID)
                   ELSE Nil
    IN  IF hit # Nil
        THEN hit
        ELSE [VendorID |-> subvendorID, ID |-> subproductID, Name |-> UNKNOWN,
              Subsystems |-> <<>>]

findPCISubsystem(inf, vendorID, productID, subvendorID, subproductID) ==
    LET product   == MapGet(inf.Products, vendorID \o productID)
        subvendor == MapGet(inf.Vendors, subvendorID)
        hit       == IF subvendor # Nil /\ product # Nil
                     THEN FirstByID(product.Subsystems, subproductID)
                     ELSE Nil
    IN  IF hit # Nil
        THEN hit
        ELSE [VendorID |-> subvendorID, ID |-> subproductID, Name |-> UNKNOWN,
              Subsystems |-> <<>>]

findPCIClass(inf, classID) ==
    LET class == MapGet(inf.Classes, classID)
    IN  IF class = Nil
        THEN [ID |-> classID, Name |-> UNKNOWN, Subclasses |-> <<>>]
        ELSE class

findPCISubclass(inf, classID, subclassID) ==
    LET class == MapGet(inf.Classes, classID)
        hit   == IF class # Nil THEN FirstByID(class.Subclasses, subclassID) ELSE Nil
    IN  IF hit # Nil
        THEN hit
        ELSE [ID |-> subclassID, Name |-> UNKNOWN, ProgrammingInterfaces |-> <<>>]

RECURSIVE AllInterfaces(_)
AllInterfaces(subclasses) ==
    IF subclasses = <<>>
    THEN <<>>
    ELSE Head(subclasses).ProgrammingInterfaces \o AllInterfaces(Tail(subclasses))

findPCIProgrammingInterfaceAnySubclass(inf, classID, subclassID, progIfaceID) ==
    LET class == findPCIClass(inf, classID)
        hit   == FirstByID(AllInterfaces(class.Subclasses), progIfaceID)
    IN  IF hit # Nil THEN hit ELSE [ID |-> progIfaceID, Name |-> UNKNOWN]

findPCIProgrammingInterface(inf, classID, subclassID, progIfaceID) ==
    LET subclass == findPCISubclass(inf, classID, subclassID)
        hit      == FirstByID(subclass.ProgrammingInterfaces, progIfaceID)
    IN  IF hit # Nil THEN hit ELSE [ID |-> progIfaceID, Name |-> UNKNOWN]

-----------------------------------------------------------------------------
(* GetDevice.  The value is the invocation's frame: the argument, the      *)
(* locals fp and modaliasInfo, and ret, the value returned (Nil, a Device, *)
(* or Panic when the invocation ended in a run-time panic).                *)

Device(address, inf, m) ==
    [Address              |-> address,
     Vendor               |-> findPCIVendor(inf, m.vendorID),
     Subsystem            |-> findPCISubsystem(inf, m.vendorID, m.productID,
                                               m.subvendorID, m.subproductID),
     Product              |-> findPCIProduct(inf, m.vendorID, m.productID),
     Class                |-> findPCIClass(inf, m.classID),
     Subclass             |-> findPCISubclass(inf, m.classID, m.subclassID),
     ProgrammingInterface |-> findPCIProgrammingInterface(inf, m.classID,
                                               m.subclassID, m.progIfaceID)]

\* the decoded fields of the previous invocation are used again
GetDeviceCached(inf, fs, address) ==
    LET fp == getDeviceModaliasPath(address)
        modaliasInfo == IF fp = <<>> THEN Nil
                        ELSE IF last # NoCall /\ last.modaliasInfo \notin {Nil, Panic}
                             THEN last.modaliasInfo
                             ELSE parseModaliasFile(fs, fp)
    IN  [address      |-> address,
         fp           |-> fp,
         modaliasInfo |-> modaliasInfo,
         ret          |-> IF modaliasInfo \in {Nil, Panic}
                          THEN modaliasInfo
                          ELSE Device(address, inf, modaliasInfo)]

\* the device carries the address in its domain:bus:slot.function form
GetDeviceCanonicalAddress(inf, fs, address) ==
    LET fp == getDeviceModaliasPath(address)
        modaliasInfo == IF fp = <<>> THEN Nil ELSE parseModaliasFile(fs, fp)
        pciAddr == AddressFromString(address)
    IN  [address      |-> address,
         fp           |-> fp,
         modaliasInfo |-> modaliasInfo,
         ret          |-> IF modaliasInfo \in {Nil, Panic}
                          THEN modaliasInfo
                          ELSE Device(pciAddr.Domain \o <<":">> \o pciAddr.Bus \o <<":">>
                                      \o pciAddr.Slot \o <<".">> \o pciAddr.Function,
                                      inf, modaliasInfo)]

GetDevice(inf, fs, address) ==
    LET fp == getDeviceModaliasPath(address)
        modaliasInfo == IF fp = <<>> THEN Nil ELSE parseModaliasFile(fs, fp)
    IN  [address      |-> address,
         fp           |-> fp,
         modaliasInfo |-> modaliasInfo,
         ret          |-> IF modaliasInfo \in {Nil, Panic}
                          THEN modaliasInfo
                          ELSE Device(address, inf, modaliasInfo)]

-----------------------------------------------------------------------------
(* ListDevices' diagnostics *)

ReadDirDiag == [msg |-> "error: failed to read /sys/bus/pci/devices"]

DeviceDiag(addr) ==
    [msg  |-> "error: failed to get device information for PCI address",
     addr |-> addr]

-----------------------------------------------------------------------------
(* Inputs: addresses, modalias files, directory listings, databases *)

MaxRuns == 1

Addr03 == <<"0", "0", "0", "0", ":", "0", "3", ":", "0", "0", ".", "0">>
Addr03Short == <<"0", "3", ":", "0", "0", ".", "0">>
Addr04 == <<"0", "0", "0", "0", ":", "0", "4", ":", "0", "0", ".", "0">>
Addr05 == <<"0", "0", "0", "0", ":", "0", "5", ":", "0", "0", ".", "0">>
AddrBad == <<"b", "o", "g", "u", "s">>

\* the addresses callers hand to GetDevice
Addresses == {Addr03, Addr03Short, Addr04, AddrBad}

Zeros == <<"0", "0", "0", "0">>

\* pci:v<8 hex>d<8 hex>sv<8 hex>sd<8 hex>bc<2 hex>sc<2 hex>i<2 hex>
Modalias(v, d, sv, sd, bc, sc, i) ==
    <<"p", "c", "i", ":", "v">> \o Zeros \o v \o <<"d">> \o Zeros \o d
    \o <<"s", "v">> \o Zeros \o sv \o <<"s", "d">> \o Zeros \o sd
    \o <<"b", "c">> \o bc \o <<"s", "c">> \o sc \o <<"i">> \o i

V10DE == <<"1", "0", "D", "E">>
V1AF4 == <<"1", "A", "F", "4">>
D1C82 == <<"1", "C", "8", "2">>
D0001 == <<"0", "0", "0", "1">>
SV1043 == <<"1", "0", "4", "3">>
SV1458 == <<"1", "4", "5", "8">>
SVFFFF == <<"F", "F", "F", "F">>
SD8613 == <<"8", "6", "1", "3">>
SD0002 == <<"0", "0", "0", "2">>

BaseBlob ==
    Modalias(V10DE, D1C82, SV1043, SD8613, <<"0", "3">>, <<"0", "0">>, <<"0", "0">>)

VendorBlobs ==
    {Modalias(v, d, sv, sd, <<"0", "3">>, <<"0", "0">>, <<"0", "0">>) :
        v \in {V10DE, V1AF4}, d \in {D1C82, D0001},
        sv \in {SV1043, SV1458, SVFFFF}, sd \in {SD8613, SD0002}}

ClassBlobs ==
    {Modalias(V10DE, D1C82, SV1043, SD8613, bc, sc, i) :
        bc \in {<<"0", "3">>, <<"0", "C">>, <<"0", "c">>},
        sc \in {<<"0", "0">>, <<"0", "3">>},
        i \in {<<"0", "0">>, <<"3", "0">>}}

\* 56 bytes that follow no layout: every decoded field is told apart
OddBlob ==
    [k \in 1..56 |-> IF k % 2 = 0 THEN UpperChars[1 + (k % 26)]
                                  ELSE LowerChars[1 + ((k * 7) % 26)]]

LongBlobs == VendorBlobs \cup ClassBlobs \cup {BaseBlob \o <<LF>>, OddBlob}

ShortBlobs == {<<>>, SubSeq(BaseBlob, 1, 45), SubSeq(BaseBlob, 1, 52)}

\* the capacities ReadFile's result may have: the length itself, or the
\* length plus the runtime's read slack
Caps(data) == {Len(data), Len(data) + 512}

File(data, cap) == [readable |-> TRUE, data |-> data, cap |-> cap]
Unreadable == [readable |-> FALSE, data |-> <<>>, cap |-> 0]
NoFile == [absent |-> TRUE]

OtherBlob ==
    Modalias(<<"8", "0", "8", "6">>, <<"A", "2", "A", "F">>, SV1458, SD0002,
             <<"0", "c">>, <<"0", "3">>, <<"3", "0">>)

Files03 == {File(b, Len(b) + 512) : b \in LongBlobs}

Files04 ==
    {NoFile, Unreadable, File(OtherBlob, Len(OtherBlob))}
    \cup UNION {{File(b, c) : c \in Caps(b)} : b \in ShortBlobs}

\* ReadDir answers in file-name order
Listings ==
    {<<>>, <<Addr04>>, <<Addr03, Addr04>>, <<Addr03, Addr04, Addr05, AddrBad>>}

Dirs == {[err |-> TRUE, names |-> <<>>]} \cup {[err |-> FALSE, names |-> l] : l \in Listings}

FullDir == [err |-> FALSE, names |-> <<Addr03, Addr04, Addr05, AddrBad>>]

Scenarios ==
    {[f03 |-> f, f04 |-> Unreadable, dir |-> FullDir] : f \in Files03}
    \cup {[f03 |-> File(BaseBlob, Len(BaseBlob) + 512), f04 |-> f, dir |-> d] :
            f \in Files04, d \in Dirs}

FileSystem(sc) ==
    LET p03 == getDeviceModaliasPath(Addr03)
        p04 == getDeviceModaliasPath(Addr04)
        p05 == getDeviceModaliasPath(Addr05)
    IN  [p \in {p03, p05} \cup (IF sc.f04 = NoFile THEN {} ELSE {p04}) |->
            IF p = p03 THEN sc.f03
            ELSE IF p = p04 THEN sc.f04
            ELSE File(OtherBlob, Len(OtherBlob) + 512)]

Sub(vendor, id, name) ==
    [VendorID |-> vendor, ID |-> id, Name |-> name, Subsystems |-> <<>>]

v10de == <<"1", "0", "d", "e">>
v1043 == <<"1", "0", "4", "3">>
v1458 == <<"1", "4", "5", "8">>
v8086 == <<"8", "0", "8", "6">>
d1c82 == <<"1", "c", "8", "2">>
da2af == <<"a", "2", "a", "f">>
s8613 == <<"8", "6", "1", "3">>
s0002 == <<"0", "0", "0", "2">>

GP107 ==
    [VendorID |-> v10de, ID |-> d1c82, Name |-> "GP107",
     Subsystems |-> <<Sub(v1043, s8613, "ASUS GTX 1050 Ti"),
                      Sub(v1458, s8613, "Gigabyte GTX 1050 Ti"),
                      Sub(v1458, s0002, "Gigabyte OC")>>]

GP107Twice ==
    [VendorID |-> v10de, ID |-> d1c82, Name |-> "GP107",
     Subsystems |-> <<Sub(v1043, s0002, "other"),
                      Sub(v1043, s8613, "first"),
                      Sub(v1043, s8613, "second")>>]

XHCI ==
    [VendorID |-> v8086, ID |-> da2af, Name |-> "USB 3.0 xHCI Controller",
     Subsystems |-> <<>>]

Display ==
    [ID |-> <<"0", "3">>, Name |-> "Display controller",
     Subclasses |->
        <<[ID |-> <<"0", "0">>, Name |-> "VGA compatible controller",
           ProgrammingInterfaces |->
              <<[ID |-> <<"0", "0">>, Name |-> "VGA controller"],
                [ID |-> <<"0", "1">>, Name |-> "8514 controller"]>>],
          [ID |-> <<"0", "2">>, Name |-> "3D controller",
           ProgrammingInterfaces |-> <<[ID |-> <<"3", "0">>, Name |-> "3D"]>>]>>]

DisplayTwice ==
    [ID |-> <<"0", "3">>, Name |-> "Display controller",
     Subclasses |->
        <<[ID |-> <<"0", "2">>, Name |-> "3D controller",
           ProgrammingInterfaces |-> <<[ID |-> <<"0", "0">>, Name |-> "3D"]>>],
          [ID |-> <<"0", "0">>, Name |-> "first",
           ProgrammingInterfaces |->
              <<[ID |-> <<"3", "0">>, Name |-> "thirty"],
                [ID |-> <<"0", "0">>, Name |-> "first-if"],
                [ID |-> <<"0", "0">>, Name |-> "second-if"]>>],
          [ID |-> <<"0", "0">>, Name |-> "second",
           ProgrammingInterfaces |-> <<>>]>>]

SerialBus ==
    [ID |-> <<"0", "c">>, Name |-> "Serial bus controller",
     Subclasses |->
        <<[ID |-> <<"0", "3">>, Name |-> "USB controller",
           ProgrammingInterfaces |-> <<[ID |-> <<"3", "0">>, Name |-> "XHCI"]>>]>>]

Vendor(id, name, products) == [ID |-> id, Name |-> name, Products |-> products]

\* what load() may have put into Info: the pci.ids database, an excerpt
\* with repeated IDs inside its lists, and an empty database
Databases ==
    {[Vendors  |-> (v10de :> Vendor(v10de, "NVIDIA Corporation", <<GP107>>))
                   @@ (v1043 :> Vendor(v1043, "ASUSTeK Computer Inc.", <<>>))
                   @@ (v1458 :> Vendor(v1458, "Gigabyte Technology Co., Ltd", <<>>))
                   @@ (v8086 :> Vendor(v8086, "Intel Corporation", <<XHCI>>)),
      Products |-> ((v10de \o d1c82) :> GP107) @@ ((v8086 \o da2af) :> XHCI),
      Classes  |-> (<<"0", "3">> :> Display) @@ (<<"0", "c">> :> SerialBus)],
     [Vendors  |-> (v10de :> Vendor(v10de, "NVIDIA Corporation", <<GP107Twice>>))
                   @@ (v1043 :> Vendor(v1043, "ASUSTeK Computer Inc.", <<>>)),
      Products |-> ((v10de \o d1c82) :> GP107Twice),
      Classes  |-> (<<"0", "3">> :> DisplayTwice)],
     [Vendors |-> <<>>, Products |-> <<>>, Classes |-> <<>>]}

-----------------------------------------------------------------------------
(* The state machine *)

Init ==
    /\ info \in Databases
    /\ \E sc \in Scenarios :
          /\ files = FileSystem(sc)
          /\ dir = sc.dir
    /\ last = NoCall
    /\ held = NoCall
    /\ pc = "idle"
    /\ links = <<>>
    /\ idx = 1
    /\ devs = <<>>
    /\ visited = <<>>
    /\ mark = 0
    /\ readErr = FALSE
    /\ runs = 0
    /\ stderr = <<>>
    /\ again = FALSE
    /\ crashed = FALSE

\* a caller invokes GetDevice(address) and may keep what it returned
GetDeviceCall(address) ==
    /\ ~crashed
    /\ pc # "loop"
    /\ LET frame == GetDevice(info, files, address)
       IN  /\ last' = frame
           /\ crashed' = (frame.ret = Panic)
           /\ again' = (again \/ (held # NoCall /\ held.address = address))
           /\ \E keep \in BOOLEAN :
                 held' = IF keep /\ held = NoCall /\ frame.ret # Panic
                         THEN frame
                         ELSE held
    /\ UNCHANGED <<info, files, dir, pc, links, idx, devs, visited, mark,
                   readErr, runs, stderr>>

\* the directory error is not looked at
ListDevicesStartNoReport ==
    /\ ~crashed
    /\ pc # "loop"
    /\ runs < MaxRuns
    /\ runs' = runs + 1
    /\ mark' = Len(stderr)
    /\ devs' = <<>>
    /\ visited' = <<>>
    /\ idx' = 1
    /\ readErr' = dir.err
    /\ stderr' = stderr
    /\ links' = dir.names
    /\ pc' = "loop"
    /\ UNCHANGED <<info, files, dir, last, held, again, crashed>>

\* ListDevices up to the range loop
ListDevicesStart ==
    /\ ~crashed
    /\ pc # "loop"
    /\ runs < MaxRuns
    /\ runs' = runs + 1
    /\ mark' = Len(stderr)
    /\ devs' = <<>>
    /\ visited' = <<>>
    /\ idx' = 1
    /\ readErr' = dir.err
    /\ IF dir.err
       THEN /\ stderr' = Append(stderr, ReadDirDiag)
            /\ links' = <<>>
            /\ pc' = "done"
       ELSE /\ stderr' = stderr
            /\ links' = dir.names
            /\ pc' = "loop"
    /\ UNCHANGED <<info, files, dir, last, held, again, crashed>>

\* the first address that yields no device ends the loop
ListDevicesStepStopAtFailure ==
    /\ ~crashed
    /\ pc = "loop"
    /\ idx <= Len(links)
    /\ LET addr  == links[idx]
           frame == GetDevice(info, files, addr)
       IN  /\ last' = frame
           /\ visited' = Append(visited, addr)
           /\ crashed' = (frame.ret = Panic)
           /\ again' = (again \/ (held # NoCall /\ held.address = addr))
           /\ stderr' = IF frame.ret = Nil THEN Append(stderr, DeviceDiag(addr))
                        ELSE stderr
           /\ devs' = IF frame.ret \notin {Nil, Panic} THEN Append(devs, frame.ret)
                      ELSE devs
           /\ idx' = IF frame.ret = Panic THEN idx ELSE idx + 1
           /\ pc' = IF frame.ret = Nil THEN "done" ELSE pc
    /\ UNCHANGED <<info, files, dir, held, links, mark, readErr, runs>>

\* one iteration of the range loop
ListDevicesStep ==
    /\ ~crashed
    /\ pc = "loop"
    /\ idx <= Len(links)
    /\ LET addr  == links[idx]
           frame == GetDevice(info, files, addr)
       IN  /\ last' = frame
           /\ visited' = Append(visited, addr)
           /\ crashed' = (frame.ret = Panic)
           /\ again' = (again \/ (held # NoCall /\ held.address = addr))
           /\ stderr' = IF frame.ret = Nil THEN Append(stderr, DeviceDiag(addr))
                        ELSE stderr
           /\ devs' = IF frame.ret \notin {Nil, Panic} THEN Append(devs, frame.ret)
                      ELSE devs
           /\ idx' = IF frame.ret = Panic THEN idx ELSE idx + 1
    /\ UNCHANGED <<info, files, dir, held, pc, links, mark, readErr, runs>>

\* the range loop is over: return devs
ListDevicesReturn ==
    /\ ~crashed
    /\ pc = "loop"
    /\ idx > Len(links)
    /\ pc' = "done"
    /\ UNCHANGED <<info, files, dir, last, held, links, idx, devs, visited,
                   mark, readErr, runs, stderr, again, crashed>>

Next ==
    \/ \E address \in Addresses : GetDeviceCall(address)
    \/ ListDevicesStart
    \/ ListDevicesStep
    \/ ListDevicesReturn

Spec == Init /\ [][Next]_vars

-----------------------------------------------------------------------------
(* Properties *)

\* the shortest blob the offset table can be applied to
MinModaliasLen == 53

Called == last # NoCall

\* the last invocation found its modalias file and could read it
ReadBlob == Called /\ last.fp \in DOMAIN files /\ files[last.fp].readable

Blob == files[last.fp].data

\* the last invocation got past the decoder: modaliasInfo holds seven fields
Decoded == Called /\ last.modaliasInfo \notin {Nil, Panic}

IsDevice(r) == r \notin {Nil, Panic}

Placeholder(vendor, id) ==
    [VendorID |-> vendor, ID |-> id, Name |-> UNKNOWN, Subsystems |-> <<>>]

\* x is the first element of list whose ID is id
IsFirstWithID(x, list, id) ==
    \E i \in 1..Len(list) :
        /\ list[i].ID = id
        /\ \A j \in 1..(i - 1) : list[j].ID # id
        /\ x = list[i]

NoneWithID(list, id) == \A i \in 1..Len(list) : list[i].ID # id

\* C1 (as claimed): a readable blob shorter than 53 characters is not
\* decoded: the decoder yields no value, GetDevice returns no device, and
\* the invocation does not end in a run-time panic.
C1_ShortBlobIsAbsent ==
    (ReadBlob /\ Len(Blob) < MinModaliasLen)
        => /\ last.modaliasInfo = Nil
           /\ last.ret = Nil
           /\ ~crashed

\* field is the blob's characters lo..hi-1 (counted from 0), lowercased
LoweredAt(field, lo, hi) ==
    /\ Len(field) = hi - lo
    /\ \A k \in 1..(hi - lo) : field[k] = ToLowerChar(Blob[lo + k])

\* field is the blob's characters lo..hi-1 (counted from 0), unchanged
VerbatimAt(field, lo, hi) ==
    /\ Len(field) = hi - lo
    /\ \A k \in 1..(hi - lo) : field[k] = Blob[lo + k]

\* C2: for a readable blob of at least 53 characters the decoder returns
\* the substrings [9,13), [18,22), [28,32), [38,42) lowercased as vendorID,
\* productID, subvendorID, subproductID and the substrings [44,46),
\* [48,50), [51,53) unchanged as classID, subclassID, progIfaceID.
C2_DecoderOffsets ==
    (ReadBlob /\ Len(Blob) >= MinModaliasLen)
        => /\ Decoded
           /\ DOMAIN last.modaliasInfo =
                {"vendorID", "productID", "subvendorID", "subproductID",
                 "classID", "subclassID", "progIfaceID"}
           /\ LoweredAt(last.modaliasInfo.vendorID, 9, 13)
           /\ LoweredAt(last.modaliasInfo.productID, 18, 22)
           /\ LoweredAt(last.modaliasInfo.subvendorID, 28, 32)
           /\ LoweredAt(last.modaliasInfo.subproductID, 38, 42)
           /\ VerbatimAt(last.modaliasInfo.classID, 44, 46)
           /\ VerbatimAt(last.modaliasInfo.subclassID, 48, 50)
           /\ VerbatimAt(last.modaliasInfo.progIfaceID, 51, 53)

\* a canonical blob with capitals in the vendor and class fields was decoded
C2_Witness ==
    /\ ReadBlob /\ Len(Blob) >= MinModaliasLen /\ Decoded
    /\ SubSeq(Blob, 10, 13) = V10DE
    /\ last.modaliasInfo.vendorID = v10de
    /\ SubSeq(Blob, 45, 46) = <<"0", "C">>
    /\ last.modaliasInfo.classID = <<"0", "C">>

C4_SubsystemVendorIsSubvendor ==
    (Decoded /\ IsDevice(last.ret))
        => last.ret.Subsystem.VendorID = last.modaliasInfo.subvendorID

\* C5: when the address parses and the blob is decodable GetDevice returns
\* a device, and each of its six records is the database's record for the
\* decoded IDs or the placeholder with the decoded ID and the name
\* "unknown" (and no children).
C5_NeverAbsent ==
    (ReadBlob /\ Len(Blob) >= MinModaliasLen) =>
        /\ Decoded
        /\ IsDevice(last.ret)
        /\ LET m == last.modaliasInfo
               d == last.ret
               key == m.vendorID \o m.productID
           IN  /\ \/ m.vendorID \in DOMAIN info.Vendors /\ d.Vendor = info.Vendors[m.vendorID]
                  \/ d.Vendor = [ID |-> m.vendorID, Name |-> UNKNOWN, Products |-> <<>>]
               /\ \/ key \in DOMAIN info.Products /\ d.Product = info.Products[key]
                  \/ /\ d.Product.ID = m.productID
                     /\ d.Product.Name = UNKNOWN
                     /\ d.Product.Subsystems = <<>>
               /\ \/ /\ key \in DOMAIN info.Products
                     /\ \E i \in 1..Len(info.Products[key].Subsystems) :
                           /\ info.Products[key].Subsystems[i].ID = m.subproductID
                           /\ d.Subsystem = info.Products[key].Subsystems[i]
                  \/ d.Subsystem.ID = m.subproductID /\ d.Subsystem.Name = UNKNOWN
               /\ \/ m.classID \in DOMAIN info.Classes /\ d.Class = info.Classes[m.classID]
                  \/ d.Class = [ID |-> m.classID, Name |-> UNKNOWN, Subclasses |-> <<>>]
               /\ \/ /\ m.classID \in DOMAIN info.Classes
                     /\ \E i \in 1..Len(info.Classes[m.classID].Subclasses) :
                           /\ info.Classes[m.classID].Subclasses[i].ID = m.subclassID
                           /\ d.Subclass = info.Classes[m.classID].Subclasses[i]
                  \/ d.Subclass = [ID |-> m.subclassID, Name |-> UNKNOWN,
                                   ProgrammingInterfaces |-> <<>>]
               /\ \/ /\ m.classID \in DOMAIN info.Classes
                     /\ \E i \in 1..Len(info.Classes[m.classID].Subclasses) :
                           LET sc == info.Classes[m.classID].Subclasses[i]
                           IN  /\ sc.ID = m.subclassID
                               /\ \E j \in 1..Len(sc.ProgrammingInterfaces) :
                                     /\ sc.ProgrammingInterfaces[j].ID = m.progIfaceID
                                     /\ d.ProgrammingInterface = sc.ProgrammingInterfaces[j]
                  \/ d.ProgrammingInterface = [ID |-> m.progIfaceID, Name |-> UNKNOWN]

\* a device none of whose IDs the database knows: six placeholders
C5_Witness ==
    /\ ReadBlob /\ Len(Blob) >= MinModaliasLen
    /\ IsDevice(last.ret)
    /\ last.modaliasInfo.vendorID \notin DOMAIN info.Vendors
    /\ last.ret.Vendor.Name = UNKNOWN
    /\ last.ret.Product.Name = UNKNOWN
    /\ last.ret.Subsystem.Name = UNKNOWN
    /\ last.ret.Class.Name = UNKNOWN
    /\ last.ret.Subclass.Name = UNKNOWN
    /\ last.ret.ProgrammingInterface.Name = UNKNOWN

Resolves(a) == IsDevice(GetDevice(info, files, a).ret)

Fails(a) == GetDevice(info, files, a).ret = Nil

\* what the current ListDevices run has written to stderr
Diagnostics == SubSeq(stderr, mark + 1, Len(stderr))

\* C6: when the listing is obtained, ListDevices hands every listed address
\* to GetDevice in listing order; it returns the devices of the addresses
\* that resolve, in listing order, and writes one diagnostic for each
\* address that yields no device, in listing order.
C6_EnumerationSkipsFailures ==
    (pc = "done" /\ ~readErr) =>
        LET ok  == SelectSeq(dir.names, Resolves)
            bad == SelectSeq(dir.names, Fails)
        IN  /\ visited = dir.names
            /\ devs = [k \in 1..Len(ok) |-> GetDevice(info, files, ok[k]).ret]
            /\ Diagnostics = [k \in 1..Len(bad) |-> DeviceDiag(bad[k])]
            /\ Len(devs) + Len(Diagnostics) = Len(dir.names)

\* a run over four addresses, the second and the last of which fail
C6_Witness ==
    /\ pc = "done" /\ ~readErr
    /\ Len(visited) = 4
    /\ Fails(visited[2]) /\ Resolves(visited[3]) /\ Fails(visited[4])
    /\ Len(devs) = 2
    /\ devs[2].Address = visited[3]
    /\ Len(Diagnostics) = 2

\* C7: when the listing cannot be obtained ListDevices writes the one
\* enumeration diagnostic, hands no address to GetDevice and returns nothing;
\* when the listing is empty it returns no device and writes no diagnostic.
C7_ListingFailureAndEmptyListing ==
    pc = "done" =>
        /\ readErr = dir.err
        /\ readErr => /\ devs = <<>>
                      /\ visited = <<>>
                      /\ Diagnostics = <<ReadDirDiag>>
        /\ (~readErr /\ dir.names = <<>>) => /\ devs = <<>>
                                             /\ Diagnostics = <<>>

\* a run that could not read the directory
C7_Witness ==
    /\ pc = "done" /\ dir.err /\ runs = 1
    /\ stderr = <<ReadDirDiag>>
    /\ devs = <<>>

\* C8: the Subclass of a device is the first entry with the decoded
\* subclassID in the subclass list of the class stored under classID, and
\* the placeholder when the class is missing or no entry matches; its
\* ProgrammingInterface is the first entry with the decoded progIfaceID in
\* that Subclass's interface list, else the placeholder -- so it is the
\* placeholder whenever the class or the subclass misses.
C8_ClassCascade ==
    (Decoded /\ IsDevice(last.ret)) =>
        LET m       == last.modaliasInfo
            d       == last.ret
            known   == m.classID \in DOMAIN info.Classes
            subMiss == \/ ~known
                       \/ NoneWithID(info.Classes[m.classID].Subclasses, m.subclassID)
            unknownIf == [ID |-> m.progIfaceID, Name |-> UNKNOWN]
        IN  /\ IF subMiss
               THEN d.Subclass = [ID |-> m.subclassID, Name |-> UNKNOWN,
                                  ProgrammingInterfaces |-> <<>>]
               ELSE IsFirstWithID(d.Subclass, info.Classes[m.classID].Subclasses,
                                  m.subclassID)
            /\ IF NoneWithID(d.Subclass.ProgrammingInterfaces, m.progIfaceID)
               THEN d.ProgrammingInterface = unknownIf
               ELSE IsFirstWithID(d.ProgrammingInterface,
                                  d.Subclass.ProgrammingInterfaces, m.progIfaceID)
            /\ subMiss => d.ProgrammingInterface = unknownIf

\* the class is known, the subclass is not, and another subclass of the
\* class lists the decoded interface ID: the interface is the placeholder
C8_Witness ==
    /\ Decoded /\ IsDevice(last.ret)
    /\ last.modaliasInfo.classID \in DOMAIN info.Classes
    /\ NoneWithID(info.Classes[last.modaliasInfo.classID].Subclasses,
                  last.modaliasInfo.subclassID)
    /\ \E i \in 1..Len(info.Classes[last.modaliasInfo.classID].Subclasses) :
          ~NoneWithID(info.Classes[last.modaliasInfo.classID].Subclasses[i].ProgrammingInterfaces,
                      last.modaliasInfo.progIfaceID)
    /\ last.ret.ProgrammingInterface.Name = UNKNOWN

\* the kept result and the latest result for the same address are equal
SameAsKept ==
    (held # NoCall /\ Called /\ last.address = held.address /\ last.ret # Panic)
        => last.ret = held.ret

IsShortForm(a) == Len(Split(a, ":")) = 2

\* a and b are the invocations for BB:SS.F and for 0000:BB:SS.F
ShortAndFull(a, b) ==
    /\ a # NoCall /\ b # NoCall
    /\ IsShortForm(a.address)
    /\ b.address = ZeroDomain \o <<":">> \o a.address

SixRecords(d) ==
    <<d.Vendor, d.Product, d.Subsystem, d.Class, d.Subclass, d.ProgrammingInterface>>

\* C10: the Address of a returned device is the argument as given; for
\* BB:SS.F the modalias file is the one of 0000:BB:SS.F, and the devices
\* returned for the two spellings have equal records and unequal Addresses.
C10_AddressAsSupplied ==
    /\ (Called /\ IsDevice(last.ret)) => last.ret.Address = last.address
    /\ \A a, b \in {held, last} :
          ShortAndFull(a, b) =>
              /\ a.fp = b.fp
              /\ a.fp = <<SysBusPciDevices>> \o b.address \o <<"/modalias">>
              /\ IsDevice(a.ret) <=> IsDevice(b.ret)
              /\ IsDevice(a.ret) =>
                    /\ SixRecords(a.ret) = SixRecords(b.ret)
                    /\ a.ret.Address = a.address
                    /\ b.ret.Address = b.address
                    /\ a.ret.Address # b.ret.Address

\* the device for 03:00.0 was kept and 0000:03:00.0 was resolved after it
C10_Witness ==
    /\ ShortAndFull(held, last)
    /\ IsDevice(held.ret) /\ IsDevice(last.ret)
    /\ held.ret.Address = Addr03Short
    /\ last.ret.Address = Addr03

=============================================================================
